---------------------------- MODULE Spec2Model ----------------------------
(***************************************************************************)
(* Model of the sui-object-model-workshop example programs:                *)
(*   src/main.rs                 (prog = "main")                           *)
(*   src/utils/transaction.rs    (prog = "split_coin_digest", fetch_coin)  *)
(*   src/utils/wallet.rs         (retrieve_wallet, setup_for_read/write)   *)
(*   src/bin/input_objects.rs    (prog = "input_objects")                  *)
(*   src/bin/return_objects.rs   (prog = "return_objects")                 *)
(* One run of one program is one behaviour; every await / call of the      *)
(* source is one step.  The network, the faucet and the key generator are  *)
(* the environment: their answers are drawn from small sets.               *)
(***************************************************************************)
EXTENDS Integers, Sequences, FiniteSets, TLC

(* ---------------------------- bounds ----------------------------------- *)
\* number of distinct addresses (key identities) that exist
MaxAddr == 3
\* longest coin stream the network holds for the sender before the run
MaxCoins == 2
\* initial-shared-version numbers the object lookup may report
MaxVersion == 2

(* ------------------------- program constants --------------------------- *)
\* transaction.rs:30  skip_while(|c| c.balance < 5_000_000)
MinBalance == 5000000
\* transaction.rs:56  let max_gas_budget = 5_000_000
SplitGasBudget == 5000000
\* input_objects.rs:107 / return_objects.rs:78  let gas_budget = 10_000_000
GasBudget == 10000000
\* transaction.rs:65  ptb.pure(1000u64)
SplitAmount == 1000

Addr == 1..MaxAddr
\* the value that stands for "no address" (Option::None)
NoAddr == MaxAddr - MaxAddr
Balances == {MinBalance - 1, MinBalance, GasBudget}
Versions == 1..MaxVersion
NoVersion == MaxVersion - MaxVersion
None == [none |-> TRUE]

Programs == {"main", "split_coin_digest", "input_objects", "return_objects"}

(* Record constructors list their fields in one fixed order throughout.    *)

(* ------------------------- sequences helpers --------------------------- *)
Min(S) == CHOOSE x \in S : \A y \in S : x <= y

RECURSIVE SortedSeq(_)
\* the elements of a finite set of integers in ascending order
SortedSeq(S) == IF S = {} THEN << >> ELSE <<Min(S)>> \o SortedSeq(S \ {Min(S)})

InsertAt(s, i, e) == SubSeq(s, 1, i) \o <<e>> \o SubSeq(s, i + 1, Len(s))

(* --------------------------- key store --------------------------------- *)
(* The key-store file: absent, present but unreadable (empty / not JSON),  *)
(* or present with a set of keys.  FileBasedKeystore keeps its keys in a   *)
(* map ordered by address, so addresses() lists them in ascending order.   *)
KeystoreFiles ==
    {[exists |-> FALSE, valid |-> TRUE, keys |-> {}],
     [exists |-> TRUE, valid |-> FALSE, keys |-> {}]}
    \cup {[exists |-> TRUE, valid |-> TRUE, keys |-> K] : K \in SUBSET Addr}

ConfigFiles ==
    {[exists |-> FALSE, valid |-> TRUE, active |-> NoAddr],
     [exists |-> TRUE, valid |-> FALSE, active |-> NoAddr]}
    \cup {[exists |-> TRUE, valid |-> TRUE, active |-> a] : a \in Addr \cup {NoAddr}}

\* FileBasedKeystore::new(path): reads the file when it exists, else starts empty
KeystoreNew(file) ==
    [ok |-> (~file.exists) \/ file.valid,
     keys |-> IF file.exists THEN file.keys ELSE {}]

\* keystore.addresses()
addresses(keys) == SortedSeq(keys)

\* keystore.save() / add_key: the file now holds exactly these keys
KeystoreSave(keys) == [exists |-> TRUE, valid |-> TRUE, keys |-> keys]

\* the key retrieve_wallet takes as the default active address:
\* keystore.addresses().first(), else a freshly generated key g1
DefaultActiveAddress(keys, g1) ==
    IF Len(addresses(keys)) > 0 THEN addresses(keys)[1] ELSE g1

\* variant: no second key is generated
EnsureSecondKeyNever(keys, g2) == keys
\* wallet.rs:53-55  if keystore.addresses().len() < 2 { generate_and_add_new_key }
EnsureSecondKey(keys, g2) ==
    IF Len(addresses(keys)) < 2 THEN keys \cup {g2} ELSE keys

(* retrieve_wallet (wallet.rs:16-63) on key-store file ks and config file   *)
(* cf; g1, g2 are the addresses of the keys the generator would produce.    *)
(* Result: ok, the two files afterwards, the number of keys generated, and  *)
(* the wallet's address list and active address.                            *)
WalletErr(ks1, cf1) ==
    [ok |-> FALSE, ks |-> ks1, cf |-> cf1, generated |-> 0,
     addrs |-> << >>, active |-> NoAddr]

retrieve_wallet(ks0, cf0, g1, g2) ==
    LET \* 21-24: create the key store when the file is absent
        ks1 == IF ~ks0.exists THEN KeystoreSave({}) ELSE ks0
        \* 26-40: create the client config when absent (reads the key store)
        cfNeeds == ~cf0.exists
        cfFail  == cfNeeds /\ ~KeystoreNew(ks1).ok
        cf1 == IF cfNeeds /\ ~cfFail
               THEN [exists |-> TRUE, valid |-> TRUE, active |-> NoAddr]
               ELSE cf0
        \* 42-43: load both files
        loadFail == (~KeystoreNew(ks1).ok) \/ (~cf1.valid)
        keys0 == KeystoreNew(ks1).keys
        \* 45-51
        default == DefaultActiveAddress(keys0, g1)
        keys1 == IF keys0 = {} THEN {g1} ELSE keys0
        \* 53-55
        keys2 == EnsureSecondKey(keys1, g2)
        \* 57-58
        cf2 == [exists |-> TRUE, valid |-> TRUE, active |-> default]
    IN  IF cfFail THEN WalletErr(ks1, cf0)
        ELSE IF loadFail THEN WalletErr(ks1, cf1)
        ELSE [ok |-> TRUE,
              ks |-> IF keys2 = keys0 THEN ks1 ELSE KeystoreSave(keys2),
              cf |-> cf2,
              generated |-> Cardinality(keys2 \ keys0),
              \* 60: WalletContext::new reads the saved config and key store
              addrs |-> addresses(keys2),
              active |-> cf2.active]

(* --------------------------- coin locator ------------------------------ *)
\* variant: the comparison is <= (a coin of exactly MinBalance is skipped)
SkipInclusive(c) == c.balance <= MinBalance
\* variant: nothing is skipped (the first coin of the stream is taken)
SkipNothing(c) == FALSE
\* transaction.rs:30  the skip_while predicate
Skip(c) == c.balance < MinBalance

RECURSIVE Pull(_, _)
(* skip_while(..).next() on a stream of which n items were already pulled:  *)
(* pulls one item at a time, drops it while the predicate holds, yields the *)
(* first item it does not hold for, None when the stream ends.              *)
Pull(stream, n) ==
    IF n = Len(stream) THEN [coin |-> None, inspected |-> n]
    ELSE IF Skip(stream[n + 1]) THEN Pull(stream, n + 1)
    ELSE [coin |-> stream[n + 1], inspected |-> n + 1]

\* transaction.rs:19-34
fetch_coin(stream) == Pull(stream, 0)

\* streams of at most n coins with distinct ids 1..Len
CoinStreams(n) ==
    UNION {{[i \in 1..k |-> [balance |-> b[i], id |-> i]] : b \in [1..k -> Balances]}
           : k \in 0..n}

(* ------------------------ transaction builder -------------------------- *)
GasCoinArg == [i |-> 0 - 1, t |-> "GasCoin"]
InputArg(i) == [i |-> i, t |-> "Input"]
ResultArg(i) == [i |-> i, t |-> "Result"]

\* ProgrammableTransactionBuilder::new()
NewPtb == [state |-> "Empty", inputs |-> << >>, commands |-> << >>]

\* index (0-based) that ptb.pure / ptb.input returns for call argument v:
\* the inputs are an insertion-ordered map, an equal input is reused
InputIndex(b, v) ==
    IF \E k \in 1..Len(b.inputs) : b.inputs[k] = v
    THEN (CHOOSE k \in 1..Len(b.inputs) : b.inputs[k] = v) - 1
    ELSE Len(b.inputs)

PtbInput(b, v) ==
    [b EXCEPT !.state = "Building",
              !.inputs = IF InputIndex(b, v) = Len(b.inputs)
                         THEN Append(b.inputs, v) ELSE b.inputs]

\* variant: the command is put in front of the list
PtbCommandFront(b, c) ==
    [b EXCEPT !.state = "Building", !.commands = <<c>> \o b.commands]
\* ptb.command(c): appends c; the handle returned is Result(index of c)
PtbCommand(b, c) ==
    [b EXCEPT !.state = "Building", !.commands = Append(b.commands, c)]

CommandHandle(b) == ResultArg(Len(b.commands))

\* ptb.finish(): consumes the builder and yields the payload
PtbFinish(b) == [inputs |-> b.inputs, commands |-> b.commands]

(* --------------------------- object lookup ----------------------------- *)
Owners == {"none", "AddressOwner", "ObjectOwner", "Immutable", "Shared"}
ObjectResponses ==
    {[data |-> FALSE, owner |-> "none", isv |-> NoVersion]}
    \cup {[data |-> TRUE, owner |-> o, isv |-> NoVersion] : o \in Owners \ {"Shared"}}
    \cup {[data |-> TRUE, owner |-> "Shared", isv |-> v] : v \in Versions}

\* variant: a version is made up when the object is not shared
ExtractVersionDefault(resp) ==
    [ok |-> TRUE,
     isv |-> IF resp.data /\ resp.owner = "Shared" THEN resp.isv ELSE Min(Versions),
     msg |-> ""]
\* input_objects.rs:66-79
ExtractVersion(resp) ==
    IF resp.data
    THEN IF resp.owner # "none"
         THEN IF resp.owner = "Shared"
              THEN [ok |-> TRUE, isv |-> resp.isv, msg |-> ""]
              ELSE [ok |-> FALSE, isv |-> NoVersion, msg |-> "Object is not shared"]
         ELSE [ok |-> FALSE, isv |-> NoVersion,
               msg |-> "Object owner information not found"]
    ELSE [ok |-> FALSE, isv |-> NoVersion, msg |-> "Object data not found"]

(* --------------------------- call arguments ---------------------------- *)
PureInput(v) == [isv |-> NoVersion, kind |-> "Pure", value |-> v, mutable |-> FALSE]
\* input_objects.rs:83-88  ObjectArg::SharedObject { id, initial_shared_version, mutable: true }
SharedInput(v) == [isv |-> v, kind |-> "SharedObject", value |-> NoAddr, mutable |-> TRUE]

Cmd(kind, args) == [kind |-> kind, args |-> args]

(* ------------------------------ state ---------------------------------- *)
VARIABLES
    prog,       \* the program that runs
    pc,         \* the statement the run is at; "done" / "failed" at the end
    err,        \* why the run failed ("" while it has not)
    trace,      \* the steps taken so far, each with its outcome
    ks, cf,     \* the key-store file and the client-config file
    wallet,     \* the WalletContext the last retrieve_wallet returned
    walletLog,  \* what every successful retrieve_wallet left behind
    coins,      \* the network's coin stream for the sender
    faucets,    \* faucet requests issued
    fetchLog,   \* every fetch_coin call: stream seen, result, items pulled
    sender, recipient,
    coin,       \* the coin selected as gas payment
    lookup,     \* the object lookup's response
    isv,        \* the initial shared version extracted from it
    ptb,        \* the transaction builder
    cmdLog,     \* the commands handed to ptb.command, in call order
    payload,    \* what ptb.finish() returned
    finishes,   \* calls of ptb.finish()
    handles,    \* the arguments ptb.pure / ptb.input / ptb.command returned, in call order
    txData, signature,
    submitted   \* calls of execute_transaction_block

ctlVars == <<prog, pc, err, trace>>
walletVars == <<ks, cf, wallet, walletLog>>
netVars == <<coins, faucets, fetchLog>>
idVars == <<sender, recipient, coin>>
objVars == <<lookup, isv>>
ptbVars == <<ptb, cmdLog, payload, finishes, handles>>
txVars == <<txData, signature, submitted>>
vars == <<ctlVars, walletVars, netVars, idVars, objVars, ptbVars, txVars>>

FirstPc(p) ==
    CASE p = "main" -> "m_clients"
      [] p = "split_coin_digest" -> "s_fetch1"
      [] OTHER -> "r_client"

Init ==
    /\ prog \in Programs
    /\ pc = FirstPc(prog)
    /\ err = ""
    /\ trace = << >>
    /\ ks \in KeystoreFiles
    /\ cf \in ConfigFiles
    /\ wallet = [active |-> NoAddr, addrs |-> << >>]
    /\ walletLog = << >>
    /\ coins \in CoinStreams(MaxCoins)
    /\ faucets = 0
    /\ fetchLog = << >>
    \* split_coin_digest gets its sender from the caller, the others from the wallet
    /\ sender \in IF prog = "split_coin_digest" THEN Addr ELSE {NoAddr}
    /\ recipient = NoAddr
    /\ coin = None
    /\ lookup = None
    /\ isv = NoVersion
    /\ ptb = None
    /\ cmdLog = << >>
    /\ payload = None
    /\ finishes = 0
    /\ handles = << >>
    /\ txData = None
    /\ signature = None
    /\ submitted = 0

(* ----------------------- control-flow helpers -------------------------- *)
\* variant: the error is dropped and the run goes on
TryIgnore(ok, next) == next
\* the ? operator: go on when the call returned Ok, leave the function with Err
Try(ok, next) == IF ok THEN next ELSE "failed"

\* one step at statement `here`: outcome ok, then statement next
Advance(here, ok, next, why) ==
    /\ pc = here
    /\ pc' = Try(ok, next)
    /\ err' = IF ok THEN err ELSE why
    /\ trace' = Append(trace, [ok |-> ok, step |-> here])
    /\ prog' = prog

\* one step that ends in a panic (expect / unwrap / assert!) when ~ok
AdvanceOrPanic(here, ok, next, why) ==
    /\ pc = here
    /\ pc' = IF ok THEN next ELSE "failed"
    /\ err' = IF ok THEN err ELSE why
    /\ trace' = Append(trace, [ok |-> ok, step |-> here])
    /\ prog' = prog

(* ------------------------- shared operations --------------------------- *)
\* SuiClientBuilder::default().build_*().await?
BuildClient(here, next) ==
    /\ \E ok \in BOOLEAN : Advance(here, ok, next, "client")
    /\ UNCHANGED <<walletVars, netVars, idVars, objVars, ptbVars, txVars>>

(* the addresses of the (at most two) keys generate_and_add_new_key would   *)
(* produce next: new, distinct, and NoAddr where none is asked for          *)
GeneratedKeys(keys) ==
    IF keys = {} THEN {g \in Addr \X Addr : g[1] # g[2]}
    ELSE IF Cardinality(keys) = 1 THEN {<<NoAddr, g2>> : g2 \in Addr \ keys}
    ELSE {<<NoAddr, NoAddr>>}

\* retrieve_wallet()? with the environment's next two generated keys
CallRetrieveWallet(here, next) ==
    \E g \in GeneratedKeys(KeystoreNew(ks).keys) :
        LET w == retrieve_wallet(ks, cf, g[1], g[2])
        IN  /\ Advance(here, w.ok, next, "wallet")
            /\ ks' = w.ks
            /\ cf' = w.cf
            /\ wallet' = IF w.ok THEN [active |-> w.active, addrs |-> w.addrs] ELSE wallet
            /\ walletLog' = IF w.ok
                            THEN Append(walletLog, [keys |-> w.ks.keys,
                                                    active |-> w.cf.active,
                                                    generated |-> w.generated])
                            ELSE walletLog

\* fetch_coin(sui, sender).await? on the network's current stream
\* (fetch_coin has no failing path: it always returns Ok)
CallFetchCoin ==
    /\ fetchLog' = Append(fetchLog, [stream |-> coins,
                                     coin |-> fetch_coin(coins).coin,
                                     inspected |-> fetch_coin(coins).inspected])
    /\ UNCHANGED <<coins, faucets>>

(* request_tokens_from_faucet(address, client).await?: one request; it may  *)
(* fail, and when it succeeds the deposit may or may not have arrived yet   *)
(* as a new coin somewhere in the sender's stream.                          *)
request_tokens_from_faucet(here, next) ==
    /\ \E ok \in BOOLEAN : Advance(here, ok, next, "faucet")
    /\ faucets' = faucets + 1
    /\ \/ coins' = coins
       \/ /\ pc' # "failed"
          /\ \E b \in Balances, i \in {0, Len(coins)} :
                coins' = InsertAt(coins, i, [balance |-> b, id |-> Len(coins) + 1])
    /\ UNCHANGED <<fetchLog, walletVars, idVars, objVars, ptbVars, txVars>>

\* keystore.sign_secure(sender, &tx_data, Intent::sui_transaction()): needs sender's key
SignSecure(keys, who) ==
    [ok |-> who \in keys, sig |-> [signer |-> who, intent |-> "sui_transaction"]]

\* FileBasedKeystore::new(..)?
OpenKeystore(here, next) ==
    /\ Advance(here, KeystoreNew(ks).ok, next, "keystore")
    /\ UNCHANGED <<walletVars, netVars, idVars, objVars, ptbVars, txVars>>

\* keystore.sign_secure(..)?
Sign(here, next) ==
    /\ Advance(here, SignSecure(KeystoreNew(ks).keys, sender).ok, next, "sign")
    /\ signature' = IF SignSecure(KeystoreNew(ks).keys, sender).ok
                    THEN SignSecure(KeystoreNew(ks).keys, sender).sig ELSE signature
    /\ UNCHANGED <<txData, submitted, walletVars, netVars, idVars, objVars, ptbVars>>

\* execute_transaction_block(Transaction::from_data(tx_data, vec![signature]), ..).await?
Execute(here, next) ==
    /\ \E ok \in BOOLEAN : Advance(here, ok, next, "execute")
    /\ submitted' = submitted + 1
    /\ UNCHANGED <<txData, signature, walletVars, netVars, idVars, objVars, ptbVars>>

\* sui.read_api().get_reference_gas_price().await?
GasPrice(here, next) ==
    /\ \E ok \in BOOLEAN : Advance(here, ok, next, "gas_price")
    /\ UNCHANGED <<walletVars, netVars, idVars, objVars, ptbVars, txVars>>

\* TransactionData::new_programmable(sender, vec![coin.object_ref()], builder, budget, price)
NewProgrammable(here, next, budget) ==
    /\ Advance(here, TRUE, next, "")
    /\ txData' = [sender |-> sender, gas |-> coin, payload |-> payload, budget |-> budget]
    /\ UNCHANGED <<signature, submitted, walletVars, netVars, idVars, objVars, ptbVars>>

\* let mut ptb = ProgrammableTransactionBuilder::new()
CreatePtb(here, next) ==
    /\ Advance(here, TRUE, next, "")
    /\ ptb' = NewPtb
    /\ UNCHANGED <<cmdLog, payload, finishes, handles, walletVars, netVars, idVars, objVars, txVars>>

\* ptb.pure(v)? / ptb.input(v)?
AddInput(here, next, v) ==
    /\ Advance(here, TRUE, next, "")
    /\ ptb' = PtbInput(ptb, v)
    /\ handles' = Append(handles, InputArg(InputIndex(ptb, v)))
    /\ UNCHANGED <<cmdLog, payload, finishes, walletVars, netVars, idVars, objVars, txVars>>

\* ptb.command(c)
AddCommand(here, next, c) ==
    /\ Advance(here, TRUE, next, "")
    /\ ptb' = PtbCommand(ptb, c)
    /\ cmdLog' = Append(cmdLog, c)
    /\ handles' = Append(handles, CommandHandle(ptb))
    /\ UNCHANGED <<payload, finishes, walletVars, netVars, idVars, objVars, txVars>>

\* variant: finish runs on a copy and the builder stays usable
FinishOnClone(here, next) ==
    /\ pc = here
    /\ Advance(here, TRUE, next, "")
    /\ payload' = PtbFinish(ptb)
    /\ finishes' = finishes + 1
    /\ UNCHANGED <<ptb, cmdLog, handles, walletVars, netVars, idVars, objVars, txVars>>
\* let builder = ptb.finish()  (finish takes the builder by value)
Finish(here, next) ==
    /\ pc = here
    /\ ptb.state # "Finalized"
    /\ Advance(here, TRUE, next, "")
    /\ payload' = PtbFinish(ptb)
    /\ ptb' = [ptb EXCEPT !.state = "Finalized"]
    /\ finishes' = finishes + 1
    /\ UNCHANGED <<cmdLog, handles, walletVars, netVars, idVars, objVars, txVars>>

(* ------------------------------ main.rs -------------------------------- *)
\* 7-16: the three clients
M_Clients == BuildClient("m_clients", "m_wallet")

\* 19-20: retrieve_wallet()?, wallet.active_address()?
M_Wallet ==
    /\ CallRetrieveWallet("m_wallet", "m_fetch1")
    /\ sender' = IF pc' # "failed" THEN wallet'.active ELSE sender
    /\ UNCHANGED <<recipient, coin, netVars, objVars, ptbVars, txVars>>

\* 24-27
M_Fetch1 ==
    /\ Advance("m_fetch1", TRUE, "m_faucet", "")
    /\ CallFetchCoin
    /\ UNCHANGED <<walletVars, idVars, objVars, ptbVars, txVars>>

\* 29: the faucet is asked whatever the first fetch_coin returned
M_Faucet == request_tokens_from_faucet("m_faucet", "m_fetch2")

\* 32-37
M_Fetch2 ==
    /\ Advance("m_fetch2", TRUE, "done", "")
    /\ CallFetchCoin
    /\ UNCHANGED <<walletVars, idVars, objVars, ptbVars, txVars>>

(* ------------------- transaction.rs: split_coin_digest ----------------- *)
\* variant: the faucet is asked although a coin was found
IsNoneAlways(r) == TRUE
\* coin.is_none() / the None arm of the match
IsNone(r) == r.coin = None

\* 40, 47: fetch_coin(..).await? matched; Some(c) => c
S_Fetch1 ==
    /\ Advance("s_fetch1", TRUE,
               IF IsNone(fetch_coin(coins)) THEN "s_faucet" ELSE "s_gas_price", "")
    /\ CallFetchCoin
    /\ coin' = IF IsNone(fetch_coin(coins)) THEN coin ELSE fetch_coin(coins).coin
    /\ UNCHANGED <<sender, recipient, walletVars, objVars, ptbVars, txVars>>

\* 42
S_Faucet == request_tokens_from_faucet("s_faucet", "s_fetch2")

\* 43-45: fetch_coin(..).await?.expect(..)
S_Fetch2 ==
    /\ AdvanceOrPanic("s_fetch2", fetch_coin(coins).coin # None, "s_gas_price", "expect")
    /\ CallFetchCoin
    /\ coin' = IF fetch_coin(coins).coin # None THEN fetch_coin(coins).coin ELSE coin
    /\ UNCHANGED <<sender, recipient, walletVars, objVars, ptbVars, txVars>>

\* 59
S_GasPrice == GasPrice("s_gas_price", "s_ptb")
\* 62
S_CreatePtb == CreatePtb("s_ptb", "s_pure")
\* 65
S_Pure == AddInput("s_pure", "s_split", PureInput(SplitAmount))
\* 66-69: SplitCoins(GasCoin, [split_coin_amount])
S_SplitCoins == AddCommand("s_split", "s_merge", Cmd("SplitCoins", <<GasCoinArg, handles[1]>>))
\* 73-76: MergeCoins(GasCoin, [Result(0)])
S_MergeCoins == AddCommand("s_merge", "s_finish", Cmd("MergeCoins", <<GasCoinArg, ResultArg(0)>>))
\* 79
S_Finish == Finish("s_finish", "s_tx_data")
\* 83-89
S_TxData == NewProgrammable("s_tx_data", "t_keystore", SplitGasBudget)

(* --------------- sign and submit (all three transactions) -------------- *)
T_Keystore == OpenKeystore("t_keystore", "t_sign")
T_Sign == Sign("t_sign", "t_execute")
T_Execute == Execute("t_execute", "done")

(* ------------- wallet.rs: setup_for_read, setup_for_write -------------- *)
\* 86
R_Client == BuildClient("r_client", "r_wallet")

\* 88
R_Wallet ==
    /\ CallRetrieveWallet("r_wallet", "r_assert")
    /\ UNCHANGED <<idVars, netVars, objVars, ptbVars, txVars>>

\* 89-90: assert!(wallet.get_addresses().len() >= 2); wallet.active_address()?
R_Assert ==
    /\ AdvanceOrPanic("r_assert", Len(wallet.addrs) >= 2, "w_fetch", "assert")
    /\ sender' = wallet.active
    /\ UNCHANGED <<recipient, coin, walletVars, netVars, objVars, ptbVars, txVars>>

\* 68-69
W_Fetch ==
    /\ Advance("w_fetch", TRUE,
               IF IsNone(fetch_coin(coins)) THEN "w_faucet" ELSE "w_wallet", "")
    /\ CallFetchCoin
    /\ UNCHANGED <<walletVars, idVars, objVars, ptbVars, txVars>>

\* 70
W_Faucet == request_tokens_from_faucet("w_faucet", "w_wallet")

\* 72
W_Wallet ==
    /\ CallRetrieveWallet("w_wallet", "w_recipient")
    /\ UNCHANGED <<idVars, netVars, objVars, ptbVars, txVars>>

\* 73-80: the first address that is not the active one, expect(..)
OtherAddresses == SelectSeq(wallet.addrs, LAMBDA a : a # sender)

W_Recipient ==
    /\ AdvanceOrPanic("w_recipient", Len(OtherAddresses) > 0, "get_coins", "recipient")
    /\ recipient' = IF Len(OtherAddresses) > 0 THEN OtherAddresses[1] ELSE recipient
    /\ UNCHANGED <<sender, coin, walletVars, netVars, objVars, ptbVars, txVars>>

(* ------------- input_objects.rs / return_objects.rs: main -------------- *)
\* 48-51: sui.coin_read_api().get_coins(sender, None, None, None).await?
GetCoins ==
    /\ \E ok \in BOOLEAN : Advance("get_coins", ok, "first_coin", "get_coins")
    /\ UNCHANGED <<walletVars, netVars, idVars, objVars, ptbVars, txVars>>

\* 52: coins.data.into_iter().next().unwrap()
FirstCoin ==
    /\ AdvanceOrPanic("first_coin", Len(coins) > 0,
                      IF prog = "input_objects" THEN "i_ptb" ELSE "o_ptb", "unwrap")
    /\ coin' = IF Len(coins) > 0 THEN coins[1] ELSE coin
    /\ UNCHANGED <<sender, recipient, walletVars, netVars, objVars, ptbVars, txVars>>

(* ------------------------- input_objects.rs ---------------------------- *)
\* 55
I_CreatePtb == CreatePtb("i_ptb", "i_lookup")

\* 60-63: get_object_with_options(counter_object, ..).await?
I_Lookup ==
    /\ \E ok \in BOOLEAN : Advance("i_lookup", ok, "i_extract", "lookup")
    /\ \E resp \in ObjectResponses : lookup' = IF pc' # "failed" THEN resp ELSE lookup
    /\ UNCHANGED <<isv, walletVars, netVars, idVars, ptbVars, txVars>>

\* 66-79
I_Extract ==
    /\ Advance("i_extract", ExtractVersion(lookup).ok, "i_input", ExtractVersion(lookup).msg)
    /\ isv' = ExtractVersion(lookup).isv
    /\ UNCHANGED <<lookup, walletVars, netVars, idVars, ptbVars, txVars>>

\* 83-89
I_Input == AddInput("i_input", "i_call", SharedInput(isv))
\* 96-102: move_call(package, counter, increment, [], [counter_object])
I_MoveCall == AddCommand("i_call", "i_finish", Cmd("MoveCall", <<handles[1]>>))
\* 105
I_Finish == Finish("i_finish", "i_gas_price")
\* 108
I_GasPrice == GasPrice("i_gas_price", "i_tx_data")
\* 107-116
I_TxData == NewProgrammable("i_tx_data", "t_keystore", GasBudget)

(* ------------------------- return_objects.rs --------------------------- *)
\* 52
O_CreatePtb == CreatePtb("o_ptb", "o_call")
\* 59-65: banana_object = ptb.command(move_call(package, banana, new, [], []))
O_MoveCall == AddCommand("o_call", "o_pure", Cmd("MoveCall", << >>))
\* 69
O_Pure == AddInput("o_pure", "o_transfer", PureInput(recipient))
\* 70-73: TransferObjects([banana_object], argument_address)
O_Transfer == AddCommand("o_transfer", "o_finish", Cmd("TransferObjects", <<handles[1], handles[2]>>))
\* 76
O_Finish == Finish("o_finish", "o_gas_price")
\* 79
O_GasPrice == GasPrice("o_gas_price", "o_tx_data")
\* 78-87
O_TxData == NewProgrammable("o_tx_data", "t_keystore", GasBudget)

Next ==
    \/ M_Clients \/ M_Wallet \/ M_Fetch1 \/ M_Faucet \/ M_Fetch2
    \/ S_Fetch1 \/ S_Faucet \/ S_Fetch2 \/ S_GasPrice \/ S_CreatePtb \/ S_Pure
    \/ S_SplitCoins \/ S_MergeCoins \/ S_Finish \/ S_TxData
    \/ T_Keystore \/ T_Sign \/ T_Execute
    \/ R_Client \/ R_Wallet \/ R_Assert \/ W_Fetch \/ W_Faucet \/ W_Wallet \/ W_Recipient
    \/ GetCoins \/ FirstCoin
    \/ I_CreatePtb \/ I_Lookup \/ I_Extract \/ I_Input \/ I_MoveCall \/ I_Finish
    \/ I_GasPrice \/ I_TxData
    \/ O_CreatePtb \/ O_MoveCall \/ O_Pure \/ O_Transfer \/ O_Finish
    \/ O_GasPrice \/ O_TxData

Spec == Init /\ [][Next]_vars

(* ======================== properties of the runs ======================= *)
Steps == {trace[i].step : i \in 1..Len(trace)}
StepOk(a) == \E i \in 1..Len(trace) : trace[i].step = a /\ trace[i].ok
\* step b was taken only after step a had completed successfully
Precedes(a, b) ==
    (b \in Steps) =>
        \E i \in 1..Len(trace) : \E j \in (i + 1)..Len(trace) :
            trace[i].step = a /\ trace[i].ok /\ trace[j].step = b
Qualifying(stream) == {i \in 1..Len(stream) : stream[i].balance >= MinBalance}
Ended == pc \in {"done", "failed"}
BuilderPrograms == {"split_coin_digest", "input_objects", "return_objects"}
SetupPrograms == {"input_objects", "return_objects"}

(* C1: every fetch_coin call returns the first coin of the stream, in      *)
(* stream order, whose balance is >= 5_000_000 (exactly 5_000_000          *)
(* qualifies), pulls no coin after that one from the stream, and returns   *)
(* None exactly when no coin of the stream qualifies, as a normal result.  *)
C1_FirstQualifyingCoin ==
    /\ \A k \in 1..Len(fetchLog) :
        LET e == fetchLog[k]
            q == Qualifying(e.stream)
        IN  /\ (e.coin = None) <=> (q = {})
            /\ (q # {}) => /\ e.coin = e.stream[Min(q)]
                           /\ e.inspected = Min(q)
                           /\ \A i \in 1..(Min(q) - 1) : e.stream[i].balance < MinBalance
            /\ (q = {}) => e.inspected = Len(e.stream)
    /\ \A s \in {"m_fetch1", "m_fetch2", "s_fetch1", "w_fetch"} : (s \in Steps) => StepOk(s)

\* a call that skipped a coin, returned one of exactly 5_000_000 and left a coin unread
C1_Witness ==
    \E k \in 1..Len(fetchLog) :
        /\ Len(fetchLog[k].stream) = 3
        /\ fetchLog[k].inspected = 2
        /\ fetchLog[k].coin # None
        /\ fetchLog[k].coin.balance = MinBalance

(* C2: in split_coin_digest, after the first fetch_coin found nothing, the *)
(* faucet request and second fetch_coin either give a coin of balance      *)
(* >= 5_000_000 or the function fails; no transaction is built, signed or  *)
(* submitted with a coin below 5_000_000.                                  *)
C2_NoUnderfundedSplit ==
    (prog = "split_coin_digest") =>
        /\ ("s_fetch2" \in Steps) =>
              \/ pc = "failed" /\ err = "expect" /\ coin = None
              \/ coin # None /\ coin.balance >= MinBalance
        /\ (ptb # None \/ txData # None \/ signature # None \/ submitted > 0) =>
              coin # None /\ coin.balance >= MinBalance
        /\ (txData # None) => txData.gas = coin

\* the fallback path run to the end: nothing found, faucet, coin found, submitted
C2_Witness ==
    /\ prog = "split_coin_digest"
    /\ Len(fetchLog) = 2
    /\ fetchLog[1].coin = None
    /\ faucets = 1
    /\ submitted = 1

ResultArgsEarlier(cmds) ==
    \A p \in 1..Len(cmds) : \A k \in 1..Len(cmds[p].args) :
        (cmds[p].args[k].t = "Result") =>
            (0 <= cmds[p].args[k].i /\ cmds[p].args[k].i < p - 1)

(* C3: the finalized command list of every payload holds exactly the       *)
(* commands added, in the order added, and every argument that refers to   *)
(* a command result refers to a strictly earlier command.                  *)
C3_CommandsInOrderNoForwardRefs ==
    (payload # None) =>
        /\ payload.commands = cmdLog
        /\ ResultArgsEarlier(payload.commands)
        /\ \A p \in 1..Len(payload.commands) : \A k \in 1..Len(payload.commands[p].args) :
              (payload.commands[p].args[k].t = "Input") =>
                  payload.commands[p].args[k].i < Len(payload.inputs)

\* return_objects finalized: the transfer uses the result of the move call before it
C3_Witness ==
    /\ prog = "return_objects"
    /\ payload # None
    /\ Len(payload.commands) = 2
    /\ payload.commands[2].args[1] = ResultArg(0)
    /\ submitted = 1

(* C4 as stated: in every program run each builder is finalized exactly    *)
(* once (and never again, and nothing is added after).                     *)
C4_FinalizedExactlyOnce ==
    (Ended /\ ptb # None) => finishes = 1

(* C4 amended: each builder is finalized at most once, exactly once in     *)
(* every run that gets as far as building the transaction data; a          *)
(* finalized builder is never finalized again and no input or command is   *)
(* added to it afterwards (the payload stays what finish returned).        *)
C4_FinalizedAtMostOnce ==
    /\ finishes <= 1
    /\ (ptb = None) => (finishes = 0 /\ payload = None)
    /\ (ptb # None) =>
          /\ (ptb.state = "Finalized") <=> (finishes = 1)
          /\ (ptb.state = "Empty") <=> (ptb.inputs = << >> /\ ptb.commands = << >>)
          /\ (ptb.state = "Finalized") =>
                /\ payload = [inputs |-> ptb.inputs, commands |-> ptb.commands]
                /\ cmdLog = ptb.commands
                /\ Len(handles) = Len(ptb.inputs) + Len(ptb.commands)
          /\ (ptb.state # "Finalized") => payload = None
    /\ (txData # None \/ signature # None \/ submitted > 0) => finishes = 1
    /\ (pc = "done" /\ prog \in BuilderPrograms) => finishes = 1

\* a run that submitted its transaction with the builder finalized
C4_Witness ==
    /\ pc = "done"
    /\ ptb # None
    /\ ptb.state = "Finalized"
    /\ finishes = 1
    /\ submitted = 1

LookupShared == lookup # None /\ lookup.data /\ lookup.owner = "Shared"

(* C5: in input_objects the shared-object input carries the                *)
(* initial-shared-version the lookup of the same run returned; when the    *)
(* lookup gives no data, no owner or a non-shared owner the run fails      *)
(* before any input is added and before anything is signed or submitted.   *)
C5_SharedVersionFromLookup ==
    (prog = "input_objects") =>
        /\ (ptb # None /\ Len(ptb.inputs) > 0) =>
              /\ LookupShared
              /\ ptb.inputs = <<[isv |-> lookup.isv, kind |-> "SharedObject",
                                 value |-> NoAddr, mutable |-> TRUE]>>
        /\ ("i_extract" \in Steps /\ ~LookupShared) =>
              /\ pc = "failed"
              /\ err \in {"Object is not shared", "Object owner information not found",
                          "Object data not found"}
              /\ ptb.inputs = << >>
              /\ payload = None /\ txData = None /\ signature = None /\ submitted = 0

\* a submitted transaction whose shared input carries a version other than the smallest
C5_Witness ==
    /\ prog = "input_objects"
    /\ submitted = 1
    /\ LookupShared
    /\ lookup.isv = MaxVersion
    /\ ptb.inputs[1].isv = MaxVersion

(* C6 as stated: in every run of every program at most one faucet request  *)
(* is issued, and only after a fetch_coin of the run found no coin.        *)
C6_FaucetOnlyAsFallback ==
    /\ faucets <= 1
    /\ (faucets = 1) => (Len(fetchLog) >= 1 /\ fetchLog[1].coin = None)

(* C6 amended: in every run at most one faucet request is issued, and      *)
(* only after a fetch_coin call of the run; in split_coin_digest and in    *)
(* the programs that start with setup_for_write only when that fetch_coin  *)
(* found no qualifying coin, while main.rs issues its one request whatever *)
(* its first fetch_coin returned.                                          *)
C6_FaucetAtMostOnce ==
    /\ faucets <= 1
    /\ (faucets = 1) => Len(fetchLog) >= 1
    /\ (prog # "main" /\ faucets = 1) => fetchLog[1].coin = None
    /\ (prog # "main" /\ Len(fetchLog) >= 1 /\ fetchLog[1].coin # None) =>
          (faucets = 0 /\ Len(fetchLog) = 1)
    /\ (prog = "main" /\ "m_fetch2" \in Steps) => faucets = 1

\* setup_for_write took the fallback and the program ran to the end
C6_Witness ==
    /\ prog \in SetupPrograms
    /\ faucets = 1
    /\ fetchLog[1].coin = None
    /\ pc = "done"

(* C7: each pipeline is linear and fail-stop: a step runs only after every *)
(* earlier step succeeded, nothing runs after a failure, no step runs      *)
(* twice, and a transaction is submitted at most once and only after it    *)
(* was signed with the sender's key under the transaction intent.          *)
C7_LinearFailStop ==
    /\ \A i \in 1..(Len(trace) - 1) : trace[i].ok
    /\ (pc = "failed") <=> (Len(trace) > 0 /\ ~trace[Len(trace)].ok)
    /\ \A i \in 1..Len(trace) : \A j \in 1..Len(trace) :
          (trace[i].step = trace[j].step) => i = j
    /\ submitted <= 1
    /\ (submitted = 1) =>
          /\ signature = [signer |-> sender, intent |-> "sui_transaction"]
          /\ txData # None /\ txData.sender = sender /\ txData.payload = payload
          /\ payload # None
    /\ Precedes("m_clients", "m_wallet") /\ Precedes("m_wallet", "m_fetch1")
    /\ Precedes("m_fetch1", "m_faucet") /\ Precedes("m_faucet", "m_fetch2")
    /\ Precedes("s_fetch1", "s_faucet") /\ Precedes("s_faucet", "s_fetch2")
    /\ Precedes("s_fetch1", "s_gas_price") /\ Precedes("s_gas_price", "s_finish")
    /\ Precedes("s_finish", "s_tx_data")
    /\ Precedes("r_wallet", "w_fetch") /\ Precedes("w_fetch", "w_faucet")
    /\ Precedes("w_fetch", "w_wallet") /\ Precedes("w_wallet", "get_coins")
    /\ Precedes("get_coins", "i_finish") /\ Precedes("i_finish", "i_gas_price")
    /\ Precedes("i_gas_price", "i_tx_data")
    /\ Precedes("get_coins", "o_finish") /\ Precedes("o_finish", "o_gas_price")
    /\ Precedes("o_gas_price", "o_tx_data")
    /\ ("t_sign" \in Steps) =>
          (StepOk("s_tx_data") \/ StepOk("i_tx_data") \/ StepOk("o_tx_data"))
    /\ Precedes("t_keystore", "t_sign") /\ Precedes("t_sign", "t_execute")

\* a whole pipeline, faucet fallback included, submitted
C7_Witness ==
    /\ pc = "done"
    /\ submitted = 1
    /\ faucets = 1
    /\ "w_faucet" \in Steps

(* C8: whenever retrieve_wallet returns successfully both files exist, the *)
(* key store holds at least two keys and the configuration's active        *)
(* address is one of them; the assertion of setup_for_read never fails.    *)
C8_WalletHasTwoKeys ==
    /\ \A k \in 1..Len(walletLog) :
          /\ Cardinality(walletLog[k].keys) >= 2
          /\ walletLog[k].active \in walletLog[k].keys
    /\ (Len(walletLog) > 0) =>
          /\ ks.exists /\ ks.valid /\ cf.exists /\ cf.valid
          /\ Cardinality(ks.keys) >= 2
          /\ cf.active \in ks.keys
          /\ Len(wallet.addrs) >= 2
    /\ err # "assert"

\* both files were absent, two keys were generated and the assertion passed
C8_Witness ==
    /\ Len(walletLog) >= 1
    /\ walletLog[1].generated = 2
    /\ "r_assert" \in Steps
    /\ pc # "failed"

(* C9: a second retrieve_wallet, with nothing else touching the files in   *)
(* between, generates no key and leaves the key identities and the         *)
(* configuration's active address as the first call left them.             *)
C9_RetrieveWalletIdempotent ==
    (Len(walletLog) >= 2) =>
        /\ walletLog[2].generated = 0
        /\ walletLog[2].keys = walletLog[1].keys
        /\ walletLog[2].active = walletLog[1].active

(* C10: for every submitted transaction the gas coin had, when selected, a *)
(* balance at least equal to the transaction's gas budget.                 *)
C10_GasCoinCoversBudget ==
    (submitted > 0) => (coin # None /\ coin.balance >= txData.budget)

=============================================================================
